---- MODULE Spec2Model ----
(***************************************************************************)
(* The scrape-parse-dedupe-persist pipeline of parser/ : the scheduler     *)
(* (parser/__main__.py), the fetcher/extractor/filter (parser/parse.py)    *)
(* and the persister (parser/database.py); and the REST API of user/ and   *)
(* article/ : its views, serializers and helpers.                          *)
(*                                                                         *)
(* Strings are sequences of one-character strings; Python None and SQL     *)
(* NULL are the value None, which is no sequence of characters.            *)
(***************************************************************************)
EXTENDS Integers, Sequences, FiniteSets, TLC

\* ---------------------------------------------------------------- bounds
MaxRows == 2     \* rows of a fetched page
MaxTicks == 2    \* cron ticks in a behaviour
MaxRuns == 2     \* invocations of main() in flight at once

\* ---------------------------------------------------------------- values
None == <<"None">>

Whitespace == {" "}

UrlA == <<"/", "a">>
UrlB == <<"/", "b">>

\* A <tr> of the page: its class, whether it holds span.titleline, whether
\* that span holds an <a>, and the text and href attribute of that <a>.
NoSpanRow == [cls |-> "athing", span |-> FALSE, a |-> FALSE, text |-> <<>>, href |-> None]
NoLinkRow == [cls |-> "athing", span |-> TRUE, a |-> FALSE, text |-> <<>>, href |-> None]
LinkRow(c, t, h) == [cls |-> c, span |-> TRUE, a |-> TRUE, text |-> t, href |-> h]
OtherRow == LinkRow("subtext", <<" ", "A">>, UrlB)

Rows ==
    {NoSpanRow, NoLinkRow, OtherRow,
     LinkRow("athing", <<" ", "A">>, UrlA),
     LinkRow("athing", <<>>, UrlB),
     LinkRow("athing", <<" ", "A">>, None)}

Pages == UNION {[1..n -> Rows] : n \in 0..MaxRows}

Statuses == {200, 503}

Runs == 1..MaxRuns

\* ------------------------------------------------------- parser/parse.py
RECURSIVE lstrip(_)
lstrip(s) ==
    IF s # <<>> /\ Head(s) \in Whitespace THEN lstrip(Tail(s)) ELSE s

RECURSIVE rstrip(_)
rstrip(s) ==
    IF s # <<>> /\ s[Len(s)] \in Whitespace
    THEN rstrip(SubSeq(s, 1, Len(s) - 1))
    ELSE s

strip(s) == rstrip(lstrip(s))

\* article.get_text().strip(): a Tag always has get_text, so the
\* AttributeError branch is never taken.
get_title(article) == strip(article.text)

\* Variant: the wrong attribute is read, so nothing is ever found.
get_url_src(article) == None

\* article.get("href"): the attribute's value, or None when it is absent.
get_url(article) == article.href

Article(title, url) == <<title, url>>
Title(article) == article[1]
Url(article) == article[2]

\* Variant: a row without a link yields a record of two nulls.
parse_single_article_empty(article_soup) ==
    IF ~article_soup.span \/ ~article_soup.a THEN Article(None, None)
    ELSE Article(get_title(article_soup), get_url(article_soup))

\* The value _parse_single_article returns for one row.
parse_single_article(article_soup) ==
    IF ~article_soup.span THEN None
    ELSE IF ~article_soup.a THEN None
    ELSE Article(get_title(article_soup), get_url(article_soup))

\* What _parse_single_article logs for one row.
parse_single_log(article_soup) ==
    IF ~article_soup.span THEN << <<"ERROR", "Error parsing article">> >>
    ELSE IF ~article_soup.a THEN << <<"WARNING", "No article found in soup.">> >>
    ELSE <<>>

\* Variant: every <tr> is taken, whatever its class.
find_all_tr(page_soup) == page_soup

find_all(page_soup) == SelectSeq(page_soup, LAMBDA tr : tr.cls = "athing")

filter_articles(articles) == SelectSeq(articles, LAMBDA article : article # None)

RECURSIVE Concat(_)
Concat(ss) == IF ss = <<>> THEN <<>> ELSE Head(ss) \o Concat(Tail(ss))

\* response.raise_for_status() returns for a 2xx status and raises
\* HTTPStatusError otherwise.
is_success(status) == status \in 200..299

\* ---------------------------------------------------- parser/database.py
\* Variant: a session made with autoflush=False.
autoflush_off == FALSE

\* async_sessionmaker(engine) leaves the session's autoflush at its default.
autoflush == TRUE

\* Variant: the two columns are swapped.
ParsedArticle_swapped(id, title, url) == [id |-> id, title |-> url, url |-> title]

ParsedArticle(id, title, url) == [id |-> id, title |-> title, url |-> url]

\* The INSERTs a flush emits for the objects added to the session; the
\* primary key is drawn from the table's sequence.
FlushRows(new, nid) ==
    {ParsedArticle(nid + k - 1, Title(new[k]), Url(new[k])) : k \in 1..Len(new)}

\* Variant: the lookup compares the wrong column.
SelectByTitle(table, own, url) == {row \in table \cup own : row.title = url}

\* select(ParsedArticle).where(ParsedArticle.url == url) inside the session's
\* transaction: committed rows and the session's own inserted rows
\* (url == None compiles to url IS NULL).
SelectByUrl(table, own, url) == {row \in table \cup own : row.url = url}

\* ---------------------------------------------------------------- state
VARIABLES
    store,      \* table parsed_articles: the committed rows
    nextId,     \* the table's primary-key sequence
    ticks,      \* number of cron ticks fired so far
    run,        \* the invocations of main() in flight, by slot
    last        \* history: the invocation that returned most recently

VARIABLES
    users,        \* table user_user
    authTokens,   \* table authtoken_token
    nextKey,      \* the next key Token.generate_key returns
    resetTokens,  \* table user_passwordresettoken
    outbox,       \* the emails sent
    articleRows,  \* table article_article
    now,          \* the clock
    resp          \* the response to the last request

VARIABLES
    ctx,          \* the bot's FSM storage: state and data of each chat
    reply,        \* what the bot did with the last message it received
    sent          \* the messages the blog posted to Telegram's sendMessage

parserVars == <<store, nextId, ticks, run, last>>
apiVars == <<users, authTokens, nextKey, resetTokens, outbox, articleRows, now, resp>>
botVars == <<ctx, reply, sent>>
vars == <<parserVars, apiVars, botVars>>

IdleRun ==
    [pc |-> "idle", client |-> "none", page |-> <<>>, articles |-> None,
     batch |-> None, i |-> 0, new |-> <<>>, flushed |-> {}, exc |-> "",
     log |-> <<>>, wrote |-> FALSE, status |-> 0,
     startStore |-> {}, endStore |-> {}, overlapped |-> FALSE,
     repeat |-> FALSE, prevEnd |-> {},
     rolledBack |-> {}]

Active(r) == run[r].pc # "idle"

InitParser ==
    /\ store = {}
    /\ nextId = 1
    /\ ticks = 0
    /\ run = [r \in Runs |-> IdleRun]
    /\ last = IdleRun

\* main() returns or raises: its slot is free again.  History: the store it
\* leaves, and whether it ran alone on the page that the invocation before
\* it had fetched and processed without an exception.
Finish(r, rec, newStore) ==
    /\ run' = [run EXCEPT ![r] = IdleRun]
    /\ last' = [rec EXCEPT !.pc = "done", !.endStore = newStore,
                           !.prevEnd = last.endStore,
                           !.repeat = /\ ~rec.overlapped
                                      /\ last.pc = "done"
                                      /\ last.exc = ""
                                      /\ is_success(rec.status)
                                      /\ last.page = rec.page]

\* ------------------------------------------------- parser/__main__.py
\* The crontab fires: main() starts (init_db, WebParser()) whether or not
\* an earlier invocation is still running.
Tick(r) ==
    /\ ticks < MaxTicks
    /\ ~Active(r)
    /\ \A q \in Runs : q < r => Active(q)
    /\ ticks' = ticks + 1
    /\ LET others == \E q \in Runs : Active(q)
       IN run' = [q \in Runs |->
                    IF q = r
                    THEN [IdleRun EXCEPT !.pc = "fetching", !.client = "open",
                                         !.startStore = store,
                                         !.overlapped = others]
                    ELSE IF Active(q) THEN [run[q] EXCEPT !.overlapped = TRUE]
                    ELSE run[q]]
    /\ UNCHANGED <<store, nextId, last>>
    /\ UNCHANGED <<apiVars, botVars>>

\* Variant: main tests `articles != []`.
Truthy_not_empty(articles) == articles # <<>>

\* The truth value main tests: None and the empty list are false.
Truthy(articles) == articles # None /\ Len(articles) > 0

\* Variant: main calls write_to_db without testing what parse_all_articles
\* returned.
Main_no_test(r, rec, articles) ==
    /\ run' = [run EXCEPT ![r] = [rec EXCEPT !.batch = articles,
                                            !.pc = "persisting",
                                            !.wrote = TRUE,
                                            !.i = 1]]
    /\ UNCHANGED last

\* main() from the return of parse_all_articles: write_to_db is entered, or
\* the warning is logged and main returns.
Main(r, rec, articles) ==
    IF Truthy(articles)
    THEN /\ run' = [run EXCEPT ![r] = [rec EXCEPT !.batch = articles,
                                                  !.pc = "persisting",
                                                  !.wrote = TRUE, !.i = 1]]
         /\ UNCHANGED last
    ELSE Finish(r, [rec EXCEPT !.batch = articles,
                               !.log = @ \o
                        << <<"WARNING", "Articles were not added to database">> >>],
                store)

\* client.get raises httpx.RequestError: it is logged, the client is closed
\* and None is returned to main.
FetchRequestError(r) ==
    /\ run[r].pc = "fetching"
    /\ Main(r, [run[r] EXCEPT !.client = "closed",
                              !.log = @ \o << <<"ERROR", "Error fetching the page">> >>],
            None)
    /\ UNCHANGED <<store, nextId, ticks>>
    /\ UNCHANGED <<apiVars, botVars>>

\* The response has a non-2xx status: raise_for_status raises
\* HTTPStatusError, which is no RequestError, so it leaves
\* parse_all_articles (through finally) and main.
FetchStatusError(r) ==
    /\ run[r].pc = "fetching"
    /\ \E status \in Statuses :
        /\ ~is_success(status)
        /\ Finish(r, [run[r] EXCEPT !.client = "closed", !.status = status,
                                    !.exc = "HTTPStatusError"],
                  store)
    /\ UNCHANGED <<store, nextId, ticks>>
    /\ UNCHANGED <<apiVars, botVars>>

FetchOk(r) ==
    /\ run[r].pc = "fetching"
    /\ \E status \in Statuses, page \in Pages :
        /\ is_success(status)
        /\ run' = [run EXCEPT ![r].pc = "parsing", ![r].status = status,
                              ![r].page = page]
    /\ UNCHANGED <<store, nextId, ticks, last>>
    /\ UNCHANGED <<apiVars, botVars>>

\* find_all and the gather of _parse_single_article over the rows.
Parse(r) ==
    /\ run[r].pc = "parsing"
    /\ LET articles_soup == find_all(run[r].page)
           n == Len(articles_soup)
       IN run' = [run EXCEPT
                    ![r].pc = "filtering",
                    ![r].articles =
                        [k \in 1..n |-> parse_single_article(articles_soup[k])],
                    ![r].log = @ \o
                        Concat([k \in 1..n |-> parse_single_log(articles_soup[k])])]
    /\ UNCHANGED <<store, nextId, ticks, last>>
    /\ UNCHANGED <<apiVars, botVars>>

\* _filter_articles, the return through finally (the client is closed), and
\* main's test of the result.
Filter(r) ==
    /\ run[r].pc = "filtering"
    /\ Main(r, [run[r] EXCEPT !.client = "closed"],
            filter_articles(run[r].articles))
    /\ UNCHANGED <<store, nextId, ticks>>
    /\ UNCHANGED <<apiVars, botVars>>

\* Variant: the engine runs in autocommit, a flushed INSERT is committed.
flush_autocommit(table, rows) == table \cup rows

\* What other sessions read after this session has flushed rows inside its
\* transaction: the committed table, without them.
flush(table, rows) == table

\* Variant: a lookup that finds several rows raises nothing.
MultipleResultsFound_never(rows) == FALSE

\* Result.scalar_one_or_none raises MultipleResultsFound for two rows or
\* more.
MultipleResultsFound(rows) == Cardinality(rows) > 1

\* One iteration of write_to_db's loop: the select (preceded by the
\* session's autoflush), scalar_one_or_none, and session.add.
Check(r) ==
    /\ run[r].pc = "persisting"
    /\ run[r].i <= Len(run[r].batch)
    /\ LET article == run[r].batch[run[r].i]
           toFlush == IF autoflush THEN run[r].new ELSE <<>>
           kept == IF autoflush THEN <<>> ELSE run[r].new
           flushed == run[r].flushed \cup FlushRows(toFlush, nextId)
           existing == SelectByUrl(store, flushed, Url(article))
       IN IF run[r].batch = None
          THEN \* iterating None raises TypeError before any statement.
               /\ Finish(r, [run[r] EXCEPT !.exc = "TypeError"], store)
               /\ UNCHANGED <<store, nextId>>
          ELSE
          /\ nextId' = nextId + Len(toFlush)
          /\ store' = flush(store, FlushRows(toFlush, nextId))
          /\ IF MultipleResultsFound(existing)
             THEN \* MultipleResultsFound: the session closes, rolling back.
                  Finish(r, [run[r] EXCEPT !.exc = "MultipleResultsFound",
                                           !.new = <<>>, !.flushed = {},
                                           !.rolledBack = flushed],
                         store)
             ELSE /\ run' = [run EXCEPT
                               ![r].flushed = flushed,
                               ![r].new = IF existing # {} THEN kept
                                          ELSE Append(kept, article),
                               ![r].i = @ + 1]
                  /\ UNCHANGED last
    /\ UNCHANGED ticks
    /\ UNCHANGED <<apiVars, botVars>>

\* session.commit() after the loop, and main's success message.
Commit(r) ==
    /\ run[r].pc = "persisting"
    /\ run[r].i > Len(run[r].batch)
    /\ LET rows == run[r].flushed \cup FlushRows(run[r].new, nextId)
       IN /\ nextId' = nextId + Len(run[r].new)
          /\ store' = store \cup rows
          /\ Finish(r, [run[r] EXCEPT !.new = <<>>, !.flushed = rows,
                                      !.log = @ \o
                           << <<"INFO", "Articles were added to database successfully">> >>],
                    store \cup rows)
    /\ UNCHANGED ticks
    /\ UNCHANGED <<apiVars, botVars>>

NextParser ==
    \E r \in Runs :
        \/ Tick(r)
        \/ FetchRequestError(r)
        \/ FetchStatusError(r)
        \/ FetchOk(r)
        \/ Parse(r)
        \/ Filter(r)
        \/ Check(r)
        \/ Commit(r)

\* Two overlapping runs have committed the same url; nothing is in flight.
InitDuplicates ==
    /\ store = {ParsedArticle(1, <<"A">>, UrlA), ParsedArticle(2, <<"A">>, UrlA)}
    /\ nextId = 3
    /\ ticks = 0
    /\ run = [r \in Runs |-> IdleRun]
    /\ last = IdleRun

\* ================================================= user/ and article/ (API)
\* ---------------------------------------------------------------- bounds
MaxTime == 1       \* steps of the clock in a behaviour
MaxMails == 1      \* password-reset emails sent in a behaviour
MaxSalts == 2      \* salts a user's password takes in a behaviour
MaxResetTime == 3  \* steps of the clock while passwords are reset
MaxResetMails == 2 \* password-reset emails sent while passwords are reset
MaxKeys == 6       \* auth token keys issued in a behaviour
MaxBotKeys == 3    \* auth token keys issued before the bot's last lost token
MaxArticles == 2   \* articleRows created in a behaviour

\* ---------------------------------------------------------------- values
\* A field the request body does not carry.
Absent == <<"Absent">>

EmailA == <<"a", "@", "x", ".", "c">>
EmailB == <<"b", "@", "x", ".", "c">>
BadEmail == <<"b", "a", "d">>
Emails == {EmailA, EmailB, BadEmail, <<>>}

Short == <<"1", "2", "3">>
Pw1 == <<"1", "2", "3", "4", "t", "e", "s", "t">>
Pw2 == <<"t", "e", "s", "t", "@", "1", "2", "3", "4">>
Padded == Pw1 \o <<" ">>
Passwords == {<<>>, Pw1, Padded, Pw2}

\* The password and password_2 of a registration.
PasswordPairs ==
    {<<Pw1, Pw1>>, <<Pw2, Pw2>>, <<Padded, Padded>>, <<Padded, Pw1>>,
     <<Pw1, Pw2>>, <<Short, Short>>, <<<<>>, <<>>>>}

\* The old_password, new_password and new_password_2 of a password change.
PasswordChanges ==
    {<<Pw1, Pw2, Pw2>>, <<Pw2, Pw1, Pw1>>, <<Padded, Pw2, Pw2>>,
     <<<<>>, Pw2, Pw2>>, <<Absent, Pw2, Pw2>>, <<Pw1, <<>>, <<>>>>,
     <<Pw1, Short, Short>>, <<Pw1, Pw2, Pw1>>, <<Pw1, Absent, Pw2>>,
     <<Pw1, Padded, Padded>>}
\* The new_password and new_password_2 of a password-reset confirm.
ResetPairs ==
    {<<Pw1, Pw1>>, <<Pw2, Pw2>>, <<Padded, Padded>>, <<Pw1, Pw2>>, <<<<>>, <<>>>>}
\* A token query parameter that no reset email carried.
BadToken == <<"x">>
Titles == {<<>>, <<"T">>, <<"U">>}
Texts == {<<>>, <<"C">>}
Methods == {"PUT", "PATCH"}

\* The author field of a request body that carries none.
NoAuthor == 0
\* The Authorization header: none, or a token key.
NoKey == 0
\* request.user when no credentials came, and the failure of authentication.
AnonymousUser == 0
AuthenticationFailed == -1
\* A telegram_id that is NULL.
NullId == 0
\* The Telegram ids a profile is given, and those of the people who write
\* to the bot.
TelegramIds == {7, 8}
Chats == {7}

\* ------------------------------------------------- framework field rules
\* serializers.CharField with its defaults (trim_whitespace=True,
\* allow_blank=False): the value is stripped, and '' is rejected.
to_internal_value(data) == strip(data)
blank(data) == strip(data) = <<>>

\* EmailField's validator: one "@" after a local part, and a domain with a
\* dot inside it.
EmailValidator(value) ==
    \E k \in 2..Len(value) :
        /\ {j \in 1..Len(value) : value[j] = "@"} = {k}
        /\ \E d \in (k + 2)..(Len(value) - 1) : value[d] = "."

\* The shortest password AUTH_PASSWORD_VALIDATORS admits.
min_length == 8
validate_password(password) == Len(password) >= min_length

\* make_password hashes the password with a salt; check_password hashes the
\* candidate with the salt of the stored value and compares.
make_password(password, salt) == <<"pbkdf2_sha256", salt, password>>
check_password(password, encoded) == encoded = make_password(password, encoded[2])

\* The salt of a new hash is random: here, one no earlier hash of the user has.
FirstSalt == 1
set_password(user, raw_password) ==
    [user EXCEPT !.password = make_password(raw_password, user.password[2] + 1)]

\* default_token_generator.make_token: a function of the user's pk,
\* password hash, last_login (never set here), the time in seconds, and the
\* email.
make_token(user, timestamp) == <<user.id, user.password, timestamp, user.email>>

\* timedelta(hours=1), in steps of the clock.
Hour == 2

\* ------------------------------------------------- settings and wiring
DEFAULT_AUTHENTICATION_CLASSES == "TokenAuthentication"
DEFAULT_PERMISSION_CLASSES == "IsAuthenticated"
\* The receivers connected to post_save of Article.
post_save_receivers == {}

\* ---------------------------------------------------------------- state
InitApi ==
    /\ users = {}
    /\ authTokens = {}
    /\ nextKey = 1
    /\ resetTokens = {}
    /\ outbox = <<>>
    /\ articleRows = {}
    /\ now = 0
    /\ resp = [op |-> "none", status |-> 0, data |-> <<>>]

\* The response to a request.
Response(op, status, data) == [op |-> op, status |-> status, data |-> data]

\* CustomUserManager.create_user.
create_user(email, password) ==
    [id |-> Cardinality(users) + 1, email |-> email,
     password |-> make_password(password, FirstSalt), telegram_id |-> NullId]

UserOf(tokens, key) == {t.user : t \in {x \in tokens : x.key = key}}

\* TokenAuthentication: the user of the token the header names.
request_user(key) ==
    IF key = NoKey THEN AnonymousUser
    ELSE IF UserOf(authTokens, key) # {} THEN CHOOSE u \in UserOf(authTokens, key) : TRUE
    ELSE AuthenticationFailed

\* Variant: every view admits anonymous requests.
permission_classes_any(view) == "AllowAny"

\* The permission classes each view declares, or inherits from the settings.
permission_classes(view) ==
    CASE view = "UserRegisterView" -> "AllowAny"
      [] view = "PasswordResetView" -> "AllowAny"
      [] view = "LoginView" -> "AllowAny"
      [] view = "PasswordResetConfirmView" -> "AllowAny"
      [] OTHER -> DEFAULT_PERMISSION_CLASSES

\* APIView.initial: authentication, then the permission check.
Denied(view, key) ==
    \/ request_user(key) = AuthenticationFailed
    \/ /\ permission_classes(view) = "IsAuthenticated"
       /\ request_user(key) = AnonymousUser
DeniedStatus == IF DEFAULT_AUTHENTICATION_CLASSES = "TokenAuthentication" THEN 401 ELSE 403
NotAuthenticated == [detail |-> "Authentication credentials were not provided."]
ServerError(exception) == [exception |-> exception]

\* ------------------------------------------------------------ user/
\* UserRegisterSerializer.is_valid: the fields in error.
UserRegisterSerializer(email, password, password_2) ==
    LET fields ==
            (IF \/ blank(email)
                \/ ~EmailValidator(to_internal_value(email))
                \/ \E u \in users : u.email = to_internal_value(email)
             THEN {"email"} ELSE {})
            \cup (IF blank(password) \/ ~validate_password(to_internal_value(password))
                  THEN {"password"} ELSE {})
            \cup (IF blank(password_2) THEN {"password_2"} ELSE {})
    IN IF fields # {} THEN fields
       ELSE IF to_internal_value(password) # to_internal_value(password_2)
            THEN {"password"}
            ELSE {}

\* POST register/ : UserRegisterView.
Register(email, password, password_2) ==
    LET errors == UserRegisterSerializer(email, password, password_2)
        user == create_user(to_internal_value(email), to_internal_value(password))
    IN /\ IF errors = {}
          THEN /\ users' = users \cup {user}
               /\ resp' = Response("register", 201,
                                   [email |-> user.email, avatar |-> None])
          ELSE /\ UNCHANGED users
               /\ resp' = Response("register", 400, [errors |-> errors])
       /\ UNCHANGED <<authTokens, nextKey, resetTokens, outbox, articleRows, now>>
       /\ UNCHANGED <<parserVars, botVars>>

\* django.contrib.auth.authenticate(email=..., password=...).
authenticate(email, password) ==
    {u \in users : u.email = email /\ check_password(password, u.password)}

\* Variant: a login always creates a token.
create(tokens, user_id, key) == tokens \cup {[key |-> key, user |-> user_id]}

\* Token.objects.get_or_create(user=user): the table afterwards, where key
\* is the key a new token gets.
get_or_create(tokens, user_id, key) ==
    IF \E t \in tokens : t.user = user_id THEN tokens
    ELSE tokens \cup {[key |-> key, user |-> user_id]}

\* LoginView.post: the response, and the token table and the next key
\* after it.
LoginView(email, password) ==
    LET fields ==
            (IF blank(email) \/ ~EmailValidator(to_internal_value(email))
             THEN {"email"} ELSE {})
            \cup (IF blank(password) THEN {"password"} ELSE {})
        found == authenticate(to_internal_value(email), to_internal_value(password))
        user == CHOOSE u \in found : TRUE
        table == get_or_create(authTokens, user.id, nextKey)
        token == IF \E t \in table : t.key = nextKey
                 THEN CHOOSE t \in table : t.key = nextKey
                 ELSE CHOOSE t \in table : t.user = user.id
    IN IF fields # {}
       THEN [status |-> 400, data |-> [errors |-> fields],
             authTokens |-> authTokens, nextKey |-> nextKey]
       ELSE IF found = {}
       THEN [status |-> 400, data |-> [errors |-> {"non_field_errors"}],
             authTokens |-> authTokens, nextKey |-> nextKey]
       ELSE [status |-> 200, data |-> [token |-> token.key],
             authTokens |-> table,
             nextKey |-> IF table = authTokens THEN nextKey ELSE nextKey + 1]

\* POST login/ : LoginView.
Login(email, password) ==
    LET response == LoginView(email, password)
    IN /\ resp' = Response("login", response.status, response.data)
       /\ authTokens' = response.authTokens
       /\ nextKey' = response.nextKey
       /\ UNCHANGED <<users, resetTokens, outbox, articleRows, now>>
       /\ UNCHANGED <<parserVars, botVars>>

\* Variant: the token of every user.
auth_token_all(user_id) == authTokens

\* request.user.auth_token: the token of the user.
auth_token(user_id) == {t \in authTokens : t.user = user_id}

\* POST logout/ : LogoutView.post.
Logout(key) ==
    LET uid == request_user(key)
    IN /\ IF Denied("LogoutView", key)
          THEN /\ resp' = Response("logout", DeniedStatus, NotAuthenticated)
               /\ UNCHANGED authTokens
          ELSE /\ authTokens' = authTokens \ auth_token(uid)
               /\ resp' = Response("logout", 200,
                                   [message |-> "You successfully logged out"])
       /\ UNCHANGED <<users, nextKey, resetTokens, outbox, articleRows, now>>
       /\ UNCHANGED <<parserVars, botVars>>

\* UserProfileSerializer.update with a body that carries telegram_id only.
update(instance, telegram_id) == [instance EXCEPT !.telegram_id = telegram_id]

\* PATCH profile/ with telegram_id : UserProfileView.
ProfilePatch(key, telegram_id) ==
    LET uid == request_user(key)
        user == CHOOSE u \in users : u.id = uid
    IN /\ IF Denied("UserProfileView", key)
          THEN /\ resp' = Response("profile", DeniedStatus, NotAuthenticated)
               /\ UNCHANGED users
          ELSE /\ users' = (users \ {user}) \cup {update(user, telegram_id)}
               /\ resp' = Response("profile", 200,
                                   [email |-> user.email, telegram_id |-> telegram_id])
       /\ UNCHANGED <<authTokens, nextKey, resetTokens, outbox, articleRows, now>>
       /\ UNCHANGED <<parserVars, botVars>>

\* ChangePasswordSerializer.is_valid: the fields in error. A field the body
\* does not carry is an error of a PUT and is skipped by a PATCH.
ChangePasswordSerializer(user, partial, old_password, new_password, new_password_2) ==
    LET missing(data) == IF data = Absent THEN ~partial ELSE blank(data)
        given(data) == data # Absent /\ ~blank(data)
        fields ==
            (IF \/ missing(old_password)
                \/ /\ given(old_password)
                   /\ ~check_password(to_internal_value(old_password), user.password)
             THEN {"old_password"} ELSE {})
            \cup (IF \/ missing(new_password)
                     \/ /\ given(new_password)
                        /\ ~validate_password(to_internal_value(new_password))
                  THEN {"new_password"} ELSE {})
            \cup (IF missing(new_password_2) THEN {"new_password_2"} ELSE {})
    IN IF fields # {} THEN fields
       ELSE IF new_password = Absent \/ new_password_2 = Absent
            THEN {"KeyError"}
            ELSE IF to_internal_value(new_password) # to_internal_value(new_password_2)
                 THEN {"new_password"}
                 ELSE {}

\* PUT or PATCH change_password/ : UserChangePasswordView.
ChangePassword(key, method, old_password, new_password, new_password_2) ==
    LET uid == request_user(key)
    IN /\ IF Denied("UserChangePasswordView", key)
          THEN /\ resp' = Response("change_password", DeniedStatus, NotAuthenticated)
               /\ UNCHANGED users
          ELSE IF uid = AnonymousUser
          THEN \* AnonymousUser has no password to check or set.
               /\ resp' = Response("change_password", 500,
                                   ServerError("NotImplementedError"))
               /\ UNCHANGED users
          ELSE LET user == CHOOSE u \in users : u.id = uid
                   errors == ChangePasswordSerializer(user, method = "PATCH",
                                old_password, new_password, new_password_2)
               IN IF errors = {"KeyError"}
                  THEN /\ resp' = Response("change_password", 500,
                                           ServerError("KeyError"))
                       /\ UNCHANGED users
                  ELSE IF errors # {}
                  THEN /\ resp' = Response("change_password", 400,
                                           [errors |-> errors])
                       /\ UNCHANGED users
                  ELSE /\ users' = (users \ {user}) \cup
                            {set_password(user, to_internal_value(new_password))}
                       /\ resp' = Response("change_password", 200, <<>>)
       /\ UNCHANGED <<authTokens, nextKey, resetTokens, outbox, articleRows, now>>
       /\ UNCHANGED <<parserVars, botVars>>

\* POST password_reset/ : PasswordResetView, ResetPasswordSerializer and
\* send_reset_password_email.
PasswordReset(email) ==
    LET value == to_internal_value(email)
        found == {u \in users : u.email = value}
    IN /\ IF blank(email) \/ ~EmailValidator(value) \/ found = {}
          THEN /\ resp' = Response("password_reset", 400, [errors |-> {"email"}])
               /\ UNCHANGED <<resetTokens, outbox>>
          ELSE LET user == CHOOSE u \in found : TRUE
                   token == make_token(user, now)
               IN IF \E t \in resetTokens : t.token = token
                  THEN \* the unique constraint on token: IntegrityError.
                       /\ resp' = Response("password_reset", 500,
                                           ServerError("IntegrityError"))
                       /\ UNCHANGED <<resetTokens, outbox>>
                  ELSE /\ resetTokens' = resetTokens \cup
                            {[user |-> user.id, token |-> token,
                              created_at |-> now, expires_at |-> now + Hour]}
                       /\ outbox' = Append(outbox, [to |-> <<user.email>>,
                                                    token |-> token])
                       /\ resp' = Response("password_reset", 201,
                                           [email |-> value])
       /\ UNCHANGED <<users, authTokens, nextKey, articleRows, now>>
       /\ UNCHANGED <<parserVars, botVars>>

\* Variant: a token is still valid at its expires_at.
is_valid_inclusive(reset_token) == now <= reset_token.expires_at

\* PasswordResetToken.is_valid.
is_valid(reset_token) == now < reset_token.expires_at

\* Variant: the row stays stored.
delete_none(table, row) == table

\* Variant: every token of the row's user is deleted.
delete_all(table, row) == {t \in table : t.user # row.user}

\* Model.delete of one row.
delete(table, row) == table \ {row}

\* POST password_reset_confirm/?token=... : PasswordResetConfirmView and
\* ResetPasswordConfirmSerializer (fields first, then validate, then save).
PasswordResetConfirm(token, new_password, new_password_2) ==
    LET fields == (IF blank(new_password) THEN {"new_password"} ELSE {})
                  \cup (IF blank(new_password_2) THEN {"new_password_2"} ELSE {})
        found == {t \in resetTokens : t.token = token}
        reset_token == CHOOSE t \in found : TRUE
        user == CHOOSE u \in users : u.id = reset_token.user
        refuse(errors) ==
            /\ resp' = Response("password_reset_confirm", 400, [errors |-> errors])
            /\ UNCHANGED <<users, resetTokens>>
    IN /\ IF fields # {} THEN refuse(fields)
          ELSE IF token = Absent \/ token = <<>> THEN refuse({"Token is required"})
          ELSE IF found = {} THEN refuse({"Invalid or expired token"})
          ELSE IF ~is_valid(reset_token) THEN refuse({"Invalid or expired token"})
          ELSE IF to_internal_value(new_password) # to_internal_value(new_password_2)
          THEN refuse({"Password fields didn't match."})
          ELSE /\ users' = (users \ {user}) \cup
                        {set_password(user, to_internal_value(new_password))}
               /\ resetTokens' = delete(resetTokens, reset_token)
               /\ resp' = Response("password_reset_confirm", 201, [errors |-> {}])
       /\ UNCHANGED <<authTokens, nextKey, outbox, articleRows, now>>
       /\ UNCHANGED <<parserVars, botVars>>

\* The clock moves on.
Advance ==
    /\ now' = now + 1
    /\ UNCHANGED <<users, authTokens, nextKey, resetTokens, outbox, articleRows, resp>>
    /\ UNCHANGED <<parserVars, botVars>>

NextUser ==
    \/ \E email \in Emails, pair \in PasswordPairs :
            Register(email, pair[1], pair[2])
    \/ \E email \in Emails, password \in Passwords : Login(email, password)
    \/ /\ \A u \in users : u.password[2] < MaxSalts
       /\ \E key \in NoKey..nextKey, method \in Methods, change \in PasswordChanges :
            ChangePassword(key, method, change[1], change[2], change[3])
    \/ \E email \in Emails :
            /\ PasswordReset(email)
            /\ Len(outbox') <= MaxMails
    \/ /\ now < MaxTime
       /\ Advance

NextSession ==
    \/ /\ nextKey <= MaxKeys
       /\ \E email \in Emails, password \in Passwords : Login(email, password)
    \/ \E key \in NoKey..nextKey : Logout(key)

\* The tokens the reset emails carried, and the token parameters that are
\* missing, empty or made up.
ConfirmTokens ==
    {outbox[i].token : i \in 1..Len(outbox)} \cup {Absent, <<>>, BadToken}

NextReset ==
    \/ \E email \in Emails :
            /\ PasswordReset(email)
            /\ Len(outbox') <= MaxResetMails
    \/ \E token \in ConfirmTokens, pair \in ResetPairs :
            PasswordResetConfirm(token, pair[1], pair[2])
    \/ /\ now < MaxResetTime
       /\ Advance

\* ------------------------------------------------------------ article/
\* Variant: the author comes from the request body when it carries one.
perform_create_body(author, user) == IF author = NoAuthor THEN user ELSE author

\* ArticleViewSet.perform_create over ArticleSerializer, where author is
\* read-only: the author is the requesting user.
perform_create(author, user) == user

\* Variant: the users whose telegram_id is not NULL.
users_with_telegram_id_set ==
    [exception |-> "None", rows |-> {u \in users : u.telegram_id # NullId}]

\* User.objects.filter(telegram_id__isnull=False).exclude(telegram_id=""):
\* preparing "" for the BigIntegerField raises ValueError.
users_with_telegram_id == [exception |-> "ValueError", rows |-> {}]

\* One sendMessage for each of the rows, in the order of their ids.
RECURSIVE Messages(_, _)
Messages(rows, title) ==
    IF rows = {} THEN <<>>
    ELSE LET user == CHOOSE u \in rows : \A v \in rows : u.id <= v.id
         IN <<[chat_id |-> user.telegram_id, text |-> title]>>
                \o Messages(rows \ {user}, title)

\* send_telegram_notification: the exception it raises and the messages it
\* posts.
send_telegram_notification(instance, created) ==
    IF ~created THEN [exception |-> "None", messages |-> <<>>]
    ELSE IF users_with_telegram_id.exception # "None"
    THEN [exception |-> users_with_telegram_id.exception, messages |-> <<>>]
    ELSE [exception |-> "None",
          messages |-> Messages(users_with_telegram_id.rows, instance.title)]

\* Model.save sends post_save to the receivers that are connected.
post_save(instance, created) ==
    IF post_save_receivers = {} THEN [exception |-> "None", messages |-> <<>>]
    ELSE send_telegram_notification(instance, created)

\* POST articles/ : ArticleViewSet.create.
ArticleCreate(key, title, content, author) ==
    LET uid == request_user(key)
        fields == (IF blank(title) THEN {"title"} ELSE {})
                  \cup (IF blank(content) THEN {"content"} ELSE {})
        article == [id |-> Cardinality(articleRows) + 1,
                    title |-> to_internal_value(title),
                    content |-> to_internal_value(content),
                    publication_date |-> now,
                    author |-> perform_create(author, uid)]
        signal == post_save(article, TRUE)
    IN /\ IF Denied("ArticleViewSet", key)
          THEN /\ resp' = Response("article_create", DeniedStatus, NotAuthenticated)
               /\ UNCHANGED <<articleRows, sent>>
          ELSE IF fields # {}
          THEN /\ resp' = Response("article_create", 400, [errors |-> fields])
               /\ UNCHANGED <<articleRows, sent>>
          ELSE IF uid = AnonymousUser
          THEN \* Article.author cannot be assigned AnonymousUser.
               /\ resp' = Response("article_create", 500, ServerError("ValueError"))
               /\ UNCHANGED <<articleRows, sent>>
          ELSE /\ Cardinality(articleRows) < MaxArticles
               /\ articleRows' = articleRows \cup {article}
               /\ sent' = sent \o signal.messages
               /\ resp' = IF signal.exception # "None"
                          THEN Response("article_create", 500,
                                        ServerError(signal.exception))
                          ELSE Response("article_create", 201, article)
       /\ UNCHANGED <<users, authTokens, nextKey, resetTokens, outbox, now>>
       /\ UNCHANGED <<parserVars, ctx, reply>>

\* PUT articles/<id>/ : ArticleViewSet.update.
ArticleUpdate(key, id, title, content) ==
    LET fields == (IF blank(title) THEN {"title"} ELSE {})
                  \cup (IF blank(content) THEN {"content"} ELSE {})
        found == {a \in articleRows : a.id = id}
        instance == CHOOSE a \in found : TRUE
        article == [instance EXCEPT !.title = to_internal_value(title),
                                    !.content = to_internal_value(content)]
        signal == post_save(article, FALSE)
    IN /\ IF Denied("ArticleViewSet", key)
          THEN /\ resp' = Response("article_update", DeniedStatus, NotAuthenticated)
               /\ UNCHANGED <<articleRows, sent>>
          ELSE IF found = {}
          THEN /\ resp' = Response("article_update", 404, [detail |-> "Not found."])
               /\ UNCHANGED <<articleRows, sent>>
          ELSE IF fields # {}
          THEN /\ resp' = Response("article_update", 400, [errors |-> fields])
               /\ UNCHANGED <<articleRows, sent>>
          ELSE /\ articleRows' = (articleRows \ {instance}) \cup {article}
               /\ sent' = sent \o signal.messages
               /\ resp' = IF signal.exception # "None"
                          THEN Response("article_update", 500,
                                        ServerError(signal.exception))
                          ELSE Response("article_update", 200, article)
       /\ UNCHANGED <<users, authTokens, nextKey, resetTokens, outbox, now>>
       /\ UNCHANGED <<parserVars, ctx, reply>>

\* Two users have registered and logged in.
InitArticle ==
    /\ users = {[id |-> 1, email |-> EmailA, password |-> make_password(Pw1, FirstSalt),
                 telegram_id |-> NullId],
                [id |-> 2, email |-> EmailB, password |-> make_password(Pw2, FirstSalt),
                 telegram_id |-> NullId]}
    /\ authTokens = {[key |-> 1, user |-> 1], [key |-> 2, user |-> 2]}
    /\ nextKey = 3
    /\ resetTokens = {}
    /\ outbox = <<>>
    /\ articleRows = {}
    /\ now = 0
    /\ resp = [op |-> "none", status |-> 0, data |-> <<>>]

NextArticle ==
    \/ \E key \in NoKey..nextKey, title \in Titles, content \in Texts,
          author \in NoAuthor..2 :
            ArticleCreate(key, title, content, author)
    \/ /\ now < MaxTime
       /\ Advance

\* Articles are created and updated while users set their telegram_id.
NextNotify ==
    \/ \E key \in NoKey..nextKey, telegram_id \in TelegramIds :
            ProfilePatch(key, telegram_id)
    \/ \E key \in NoKey..nextKey, title \in Titles, content \in Texts :
            ArticleCreate(key, title, content, NoAuthor)
    \/ \E key \in NoKey..nextKey, id \in 1..MaxArticles, title \in Titles,
          content \in Texts :
            ArticleUpdate(key, id, title, content)

\* ---------------------------------------------------------------- bot
\* message.text of the messages people send; None is a message without text.
StartText == <<"/", "s", "t", "a", "r", "t">>
HelpText == <<"/", "h", "e", "l", "p">>
SubscribeText == <<"/", "s", "u", "b", "s", "c", "r", "i", "b", "e">>
LatestText == <<"/", "l", "a", "t", "e", "s", "t">>
MessageTexts == {StartText, HelpText, SubscribeText, LatestText, EmailA, Pw1, None}

\* ADMIN_API_EMAIL and ADMIN_API_PASSWORD of the environment.
AdminEmail == EmailB
AdminPassword == Pw2

\* What happens to the calls of a handler: they are answered, the
\* connection fails, or the token is deleted by a logout between the login
\* and the call that carries it.
Envs == {"up", "down", "logout"}

\* The filter Command(commands=command).
Command(text, command) ==
    /\ text # None
    /\ Len(text) >= Len(command) + 1
    /\ text[1] = "/"
    /\ SubSeq(text, 2, Len(command) + 1) = command
    /\ Len(text) > Len(command) + 1 => text[Len(command) + 2] \in {" ", "@"}

\* Variant: get_latest is registered before the state handlers.
handlers_latest_first ==
    <<[callback |-> "get_start", filter |-> "Command", arg |-> Tail(StartText)],
      [callback |-> "get_help", filter |-> "Command", arg |-> Tail(HelpText)],
      [callback |-> "start_subscribe", filter |-> "Command", arg |-> Tail(SubscribeText)],
      [callback |-> "get_latest", filter |-> "Command", arg |-> Tail(LatestText)],
      [callback |-> "pass_password", filter |-> "State", arg |-> "email"],
      [callback |-> "finish_subscribe", filter |-> "State", arg |-> "password"]>>

\* dp.message.register, in the order of registration.
handlers ==
    <<[callback |-> "get_start", filter |-> "Command", arg |-> Tail(StartText)],
      [callback |-> "get_help", filter |-> "Command", arg |-> Tail(HelpText)],
      [callback |-> "start_subscribe", filter |-> "Command", arg |-> Tail(SubscribeText)],
      [callback |-> "pass_password", filter |-> "State", arg |-> "email"],
      [callback |-> "finish_subscribe", filter |-> "State", arg |-> "password"],
      [callback |-> "get_latest", filter |-> "Command", arg |-> Tail(LatestText)]>>

\* The dispatcher calls the first registered handler whose filter accepts
\* the message.
resolve(text, state) ==
    LET accepts(h) == IF h.filter = "Command" THEN Command(text, h.arg)
                      ELSE state = h.arg
        matching == {i \in DOMAIN handlers : accepts(handlers[i])}
    IN IF matching = {} THEN "unhandled"
       ELSE handlers[CHOOSE i \in matching : \A j \in matching : i <= j].callback

\* The state and data of a chat without a conversation.
NoConversation == [state |-> "none", email |-> Absent, password |-> Absent]

\* Variant: the state is reset and the data is kept.
clear_state(context) == [context EXCEPT !.state = "none"]

\* FSMContext.clear: the state is reset and the data is dropped.
clear(context) == NoConversation

\* dict.get of the data: None for a key that is not stored.
get(value) == IF value = Absent THEN None ELSE value

\* A form field as aiohttp encodes it.
str(value) == IF value = None THEN <<"N", "o", "n", "e">> ELSE value

Reply(chat, callback, text, exception) ==
    [chat |-> chat, callback |-> callback, text |-> text, exception |-> exception]

InitBot ==
    /\ ctx = [chat \in Chats |-> NoConversation]
    /\ reply = Reply(0, "none", "none", "None")
    /\ sent = <<>>

\* get_start.
GetStart(chat, text) ==
    /\ resolve(text, ctx[chat].state) = "get_start"
    /\ reply' = Reply(chat, "get_start", "Welcome", "None")
    /\ UNCHANGED <<ctx, sent>>
    /\ UNCHANGED <<parserVars, apiVars>>

\* get_help.
GetHelp(chat, text) ==
    /\ resolve(text, ctx[chat].state) = "get_help"
    /\ reply' = Reply(chat, "get_help", "Available commands", "None")
    /\ UNCHANGED <<ctx, sent>>
    /\ UNCHANGED <<parserVars, apiVars>>

\* get_latest: a login as the admin, then GET articles/latest/.
GetLatest(chat, text, env) ==
    LET response == LoginView(AdminEmail, AdminPassword)
        token == CHOOSE t \in response.authTokens : t.key = response.data.token
    IN /\ resolve(text, ctx[chat].state) = "get_latest"
       /\ IF env = "down"
          THEN /\ reply' = Reply(chat, "get_latest", "none", "ClientConnectorError")
               /\ UNCHANGED <<authTokens, nextKey, resp>>
          ELSE IF response.status # 200
          THEN /\ reply' = Reply(chat, "get_latest", "Failed connection", "None")
               /\ resp' = Response("login", response.status, response.data)
               /\ UNCHANGED <<authTokens, nextKey>>
          ELSE IF env = "logout"
          THEN /\ reply' = Reply(chat, "get_latest", "Failed to get latest article", "None")
               /\ resp' = Response("latest", DeniedStatus, NotAuthenticated)
               /\ authTokens' = response.authTokens \ {token}
               /\ nextKey' = response.nextKey
          ELSE /\ reply' = IF articleRows = {}
                           THEN \* the serializer of no instance has no
                                \* publication_date: format_date(None).
                                Reply(chat, "get_latest", "none", "TypeError")
                           ELSE Reply(chat, "get_latest", "Title", "None")
               /\ resp' = Response("latest", 200, <<>>)
               /\ authTokens' = response.authTokens
               /\ nextKey' = response.nextKey
       /\ UNCHANGED <<users, resetTokens, outbox, articleRows, now>>
       /\ UNCHANGED <<ctx, sent>>
       /\ UNCHANGED parserVars

\* start_subscribe.
StartSubscribe(chat, text) ==
    /\ resolve(text, ctx[chat].state) = "start_subscribe"
    /\ reply' = Reply(chat, "start_subscribe", "Firstly pass your email", "None")
    /\ ctx' = [ctx EXCEPT ![chat].state = "email"]
    /\ UNCHANGED sent
    /\ UNCHANGED <<parserVars, apiVars>>

\* pass_password.
PassPassword(chat, text) ==
    /\ resolve(text, ctx[chat].state) = "pass_password"
    /\ reply' = Reply(chat, "pass_password", "Pass your password", "None")
    /\ ctx' = [ctx EXCEPT ![chat].email = text, ![chat].state = "password"]
    /\ UNCHANGED sent
    /\ UNCHANGED <<parserVars, apiVars>>

\* finish_subscribe: a login with the stored email and the text, then PATCH
\* profile/ with the sender's id as telegram_id.
FinishSubscribe(chat, text, env) ==
    LET context == [ctx[chat] EXCEPT !.password = text]
        email == get(context.email)
        password == get(context.password)
        response == LoginView(str(email), str(password))
        token == CHOOSE t \in response.authTokens : t.key = response.data.token
        user == CHOOSE u \in users : u.id = token.user
    IN /\ resolve(text, ctx[chat].state) = "finish_subscribe"
       /\ IF env = "down"
          THEN /\ reply' = Reply(chat, "finish_subscribe", "none", "ClientConnectorError")
               /\ ctx' = [ctx EXCEPT ![chat] = context]
               /\ UNCHANGED <<users, authTokens, nextKey, resp>>
          ELSE IF response.status # 200
          THEN /\ reply' = Reply(chat, "finish_subscribe", "Failed connection", "None")
               /\ ctx' = [ctx EXCEPT ![chat] = clear(context)]
               /\ resp' = Response("login", response.status, response.data)
               /\ UNCHANGED <<users, authTokens, nextKey>>
          ELSE IF env = "logout"
          THEN /\ reply' = Reply(chat, "finish_subscribe", "Something went wrong", "None")
               /\ ctx' = [ctx EXCEPT ![chat] = clear(context)]
               /\ resp' = Response("profile", DeniedStatus, NotAuthenticated)
               /\ authTokens' = response.authTokens \ {token}
               /\ nextKey' = response.nextKey
               /\ UNCHANGED users
          ELSE /\ reply' = Reply(chat, "finish_subscribe", "successfully subscribed", "None")
               /\ ctx' = [ctx EXCEPT ![chat] = clear(context)]
               /\ resp' = Response("profile", 200,
                                   [email |-> user.email, telegram_id |-> chat])
               /\ users' = (users \ {user}) \cup {update(user, chat)}
               /\ authTokens' = response.authTokens
               /\ nextKey' = response.nextKey
       /\ UNCHANGED <<resetTokens, outbox, articleRows, now>>
       /\ UNCHANGED sent
       /\ UNCHANGED parserVars

\* A message no handler accepts.
Unhandled(chat, text) ==
    /\ resolve(text, ctx[chat].state) = "unhandled"
    /\ reply' = Reply(chat, "unhandled", "none", "None")
    /\ UNCHANGED <<ctx, sent>>
    /\ UNCHANGED <<parserVars, apiVars>>

NextBot ==
    \/ \E chat \in Chats, text \in MessageTexts :
            \/ GetStart(chat, text)
            \/ GetHelp(chat, text)
            \/ StartSubscribe(chat, text)
            \/ PassPassword(chat, text)
            \/ Unhandled(chat, text)
    \/ \E chat \in Chats, text \in MessageTexts,
          env \in IF nextKey <= MaxBotKeys THEN Envs ELSE Envs \ {"logout"} :
            \/ GetLatest(chat, text, env)
            \/ FinishSubscribe(chat, text, env)
    \/ /\ articleRows = {}
       /\ ArticleCreate(1, <<"T">>, <<"C">>, NoAuthor)

\* ------------------------------------------------------- specifications
\* The state before any request: nothing parsed, an empty database.
Init ==
    /\ InitParser
    /\ InitApi
    /\ InitBot

\* The state of the article tests: nothing parsed, two users logged in.
InitWithUsers ==
    /\ InitParser
    /\ InitArticle
    /\ InitBot

\* The state after two overlapping runs on one page, with an empty blog.
InitWithDuplicates ==
    /\ InitDuplicates
    /\ InitApi
    /\ InitBot

SpecParser == Init /\ [][NextParser]_vars
SpecDuplicates == InitWithDuplicates /\ [][NextParser]_vars
SpecUser == Init /\ [][NextUser]_vars
SpecArticle == InitWithUsers /\ [][NextArticle]_vars
SpecReset == InitWithUsers /\ [][NextReset]_vars
SpecSession == InitWithUsers /\ [][NextSession]_vars
SpecNotify == InitWithUsers /\ [][NextNotify]_vars
SpecBot == InitWithUsers /\ [][NextBot]_vars

\* ------------------------------------------------------------ properties
Urls(rows) == {row.url : row \in rows}
TitleUrl(rows) == {Article(row.title, row.url) : row \in rows}
DistinctUrls(batch) ==
    \A j, k \in 1..Len(batch) : j # k => Url(batch[j]) # Url(batch[k])

\* The invocation that returned last, when its GET returned a 2xx page,
\* when it raised nothing, and when no other invocation ran during it.
Done == last.pc = "done"
Fetched == Done /\ is_success(last.status)
Returned == Done /\ last.exc = ""
Alone == Done /\ ~last.overlapped

\* C1: a run that follows, without overlap, a run that processed the same
\* page without an exception leaves the store as that run left it.
C1_Idempotent ==
    (Done /\ last.repeat) => last.endStore = last.prevEnd

\* The second of two runs on one page has gone through write_to_db and found
\* the rows the first run inserted.
C1_Witness ==
    /\ Done /\ last.repeat /\ last.wrote /\ last.exc = ""
    /\ last.prevEnd # {}
    /\ last.endStore = store

\* C2: after a run that ran alone and raised nothing, on a batch of pairwise
\* distinct urls, the store holds every row it held before, unchanged, and
\* exactly one new row (title, url) per batch record whose url was not in the
\* store, and nothing else.
C2_InsertsExactlyMissing ==
    (Fetched /\ Returned /\ Alone /\ DistinctUrls(last.batch)) =>
        LET S == last.startStore
            added == last.endStore \ S
            missing == {k \in 1..Len(last.batch) : Url(last.batch[k]) \notin Urls(S)}
        IN /\ S \subseteq last.endStore
           /\ Cardinality(added) = Cardinality(missing)
           /\ TitleUrl(added) = {last.batch[k] : k \in missing}

\* A run on a store that holds one of the batch's urls and lacks another.
C2_Witness ==
    /\ Fetched /\ Returned /\ Alone /\ last.wrote /\ DistinctUrls(last.batch)
    /\ \E j, k \in 1..Len(last.batch) :
        /\ Url(last.batch[j]) \in Urls(last.startStore)
        /\ Url(last.batch[k]) \notin Urls(last.startStore)
    /\ Cardinality(last.endStore) = Cardinality(last.startStore) + 1

\* C3: a run whose GET fails with a transport error has no batch, does not
\* enter write_to_db, inserts no row, and (running alone) leaves the store
\* as it found it.
C3_TransportFailure ==
    (Done /\ last.status = 0) =>
        /\ last.batch = None
        /\ ~last.wrote
        /\ last.flushed = {}
        /\ ~last.overlapped => last.endStore = last.startStore

\* A transport failure on a store that already holds rows.
C3_Witness ==
    /\ Done /\ last.status = 0 /\ ~last.overlapped
    /\ last.startStore # {}
    /\ store = last.startStore

\* The rows a session has inserted or is about to insert.
Staged(rec) == rec.flushed \cup FlushRows(rec.new, nextId)
NoDuplicateUrl(rows) ==
    \A x, y \in rows : (x # y /\ x.url # None) => x.url # y.url

\* C4: the rows one run stages and commits never include two rows with the
\* same non-null url.
C4_NoDuplicateInRun ==
    /\ \A r \in Runs : NoDuplicateUrl(Staged(run[r]))
    /\ NoDuplicateUrl(last.flushed)

\* A run whose batch has two records of one url has committed one row.
C4_Witness ==
    /\ Returned /\ last.wrote
    /\ \E j, k \in 1..Len(last.batch) :
        /\ j # k
        /\ Url(last.batch[j]) # None
        /\ Url(last.batch[j]) = Url(last.batch[k])
        /\ Url(last.batch[j]) \in Urls(last.flushed)

\* C5: every row the pipeline inserts has a non-null title and a non-null
\* url.
C5_NoNullInStore ==
    \A row \in store : row.title # None /\ row.url # None

HasLink(row) == row.span /\ row.a
VisibleText(row) == \E k \in 1..Len(row.text) : row.text[k] \notin Whitespace

\* C6: for a listing row whose link has an href and no inner text, the
\* extractor yields the record (null, href), and the batch handed to
\* write_to_db holds that record.
C6_EmptyTextGivesNullTitle ==
    \A r \in Runs :
        run[r].pc = "persisting" =>
            LET soup == find_all(run[r].page)
            IN \A k \in 1..Len(soup) :
                (HasLink(soup[k]) /\ soup[k].href # None /\ soup[k].text = <<>>) =>
                    /\ run[r].articles[k] = Article(None, soup[k].href)
                    /\ \E j \in 1..Len(run[r].batch) :
                        run[r].batch[j] = Article(None, soup[k].href)

\* C7: a listing row whose link has visible text and an href yields a record
\* with non-null title and url; a listing row without a link yields none.
C7_Extraction ==
    \A r \in Runs :
        run[r].pc \in {"filtering", "persisting"} =>
            LET soup == find_all(run[r].page)
            IN /\ Len(run[r].articles) = Len(soup)
               /\ \A k \in 1..Len(soup) :
                    /\ (HasLink(soup[k]) /\ VisibleText(soup[k]) /\ soup[k].href # None) =>
                            /\ run[r].articles[k] # None
                            /\ Title(run[r].articles[k]) # None
                            /\ Url(run[r].articles[k]) # None
                    /\ ~HasLink(soup[k]) => run[r].articles[k] = None

\* The rows of a page have been extracted: one with text and href, one
\* without a link.
C7_Witness ==
    \E r \in Runs :
        /\ run[r].pc = "filtering"
        /\ \E j, k \in 1..Len(run[r].page) :
            /\ run[r].page[j].cls = "athing" /\ run[r].page[k].cls = "athing"
            /\ HasLink(run[r].page[j]) /\ VisibleText(run[r].page[j])
            /\ run[r].page[j].href # None
            /\ ~HasLink(run[r].page[k])
        /\ Len(run[r].articles) = 2

ListingRows(page) == {k \in 1..Len(page) : page[k].cls = "athing"}

\* C8: a run that fetched a page without listing rows has an empty batch,
\* raises nothing, does not enter write_to_db and inserts no row.
C8_EmptyPage ==
    (Fetched /\ ListingRows(last.page) = {}) =>
        /\ last.batch = <<>>
        /\ last.exc = ""
        /\ ~last.wrote
        /\ last.flushed = {}
        /\ ~last.overlapped => last.endStore = last.startStore

\* A run has finished on a page that has rows, none of them a listing row.
C8_Witness ==
    /\ Fetched /\ ListingRows(last.page) = {}
    /\ last.page # <<>>
    /\ last.log = << <<"WARNING", "Articles were not added to database">> >>

\* C9: a run whose GET returned a non-2xx status ends as one whose GET
\* failed in transport: no batch, nothing persisted, no exception out of
\* main, and an entry of severity ERROR in the pipeline's log.
C9_StatusHandledAsTransportError ==
    (Done /\ last.status # 0 /\ ~is_success(last.status)) =>
        /\ last.batch = None
        /\ ~last.wrote
        /\ last.flushed = {}
        /\ last.exc = ""
        /\ \E k \in 1..Len(last.log) : last.log[k][1] = "ERROR"

\* C10: at most one invocation of main() is in flight at any moment.
C10_NoOverlap ==
    Cardinality({r \in Runs : Active(r)}) <= 1

\* The invocation that returned last ended without a usable result: its GET
\* failed (in transport, or with a non-2xx status), or its batch is empty.
NoUsableResult == Done /\ (~is_success(last.status) \/ last.batch = <<>>)
NotAddedWarning == <<"WARNING", "Articles were not added to database">>

\* C11: a run that ends without a usable result has logged the warning, has
\* not entered write_to_db and has inserted nothing, and the next tick can
\* still start a run.
C11_NoResultWarnsAndSkips ==
    NoUsableResult =>
        /\ \E k \in 1..Len(last.log) : last.log[k] = NotAddedWarning
        /\ ~last.wrote
        /\ last.flushed = {}
        /\ ticks < MaxTicks => \E r \in Runs : ENABLED Tick(r)

\* The order of the stages of a run, and the returns to Idle that skip the
\* rest of it.
StageOrder ==
    {<<"idle", "fetching">>, <<"fetching", "parsing">>, <<"parsing", "filtering">>,
     <<"filtering", "persisting">>, <<"persisting", "idle">>}
EarlyReturn == {<<"fetching", "idle">>, <<"filtering", "idle">>}
Logged(rec, level) == \E k \in 1..Len(rec.log) : rec.log[k][1] = level

\* C12 as stated: a run changes stage only along the order Idle, Fetching,
\* Parsing, Filtering, Persisting, Idle, or from Fetching back to Idle with
\* an error logged, and no run ends by an exception without an error logged.
C12_StagesInOrder ==
    [][\A r \in Runs :
        run'[r].pc # run[r].pc =>
            /\ <<run[r].pc, run'[r].pc>> \in StageOrder \cup {<<"fetching", "idle">>}
            /\ <<run[r].pc, run'[r].pc>> = <<"fetching", "idle">> => Logged(last', "ERROR")
            /\ (run'[r].pc = "idle" /\ last'.exc # "") => Logged(last', "ERROR")]_vars

\* C12, amended: a run changes stage only along that order, or back to Idle
\* from Fetching or from Filtering. From Fetching it returns on a transport
\* error, logged as an error, or on a non-2xx status, by an exception and
\* with nothing logged; from Filtering it returns on an empty batch, logged
\* as a warning; from Persisting it returns after the commit, logged as
\* success, or by an exception of the existence check, with nothing logged.
C12_StagesInOrderOrReturn ==
    [][\A r \in Runs :
        run'[r].pc # run[r].pc =>
            /\ <<run[r].pc, run'[r].pc>> \in StageOrder \cup EarlyReturn
            /\ <<run[r].pc, run'[r].pc>> = <<"fetching", "idle">> =>
                    \/ /\ last'.status = 0 /\ last'.exc = ""
                       /\ Logged(last', "ERROR")
                    \/ /\ ~is_success(last'.status) /\ last'.status # 0
                       /\ last'.exc = "HTTPStatusError" /\ last'.log = <<>>
            /\ <<run[r].pc, run'[r].pc>> = <<"filtering", "idle">> =>
                    /\ last'.batch = <<>> /\ last'.exc = ""
                    /\ Logged(last', "WARNING")
            /\ <<run[r].pc, run'[r].pc>> = <<"persisting", "idle">> =>
                    \/ /\ last'.exc = "" /\ Logged(last', "INFO")
                    \/ /\ last'.exc = "MultipleResultsFound"
                       /\ ~Logged(last', "ERROR") /\ ~Logged(last', "INFO")]_vars

\* The last of the runs has gone through every stage and committed.
C12_Witness ==
    /\ Done /\ last.wrote /\ last.exc = ""
    /\ last.i = Len(last.batch) + 1
    /\ Logged(last, "INFO")
    /\ ticks = MaxTicks /\ \A r \in Runs : ~Active(r)

\* C13: the rows a run stages reach the committed store together, in the
\* commit that follows the check of the last record: while the run is in
\* flight none of them is in the store, after its commit all of them are,
\* and after a run that ended by an exception none of them is.
C13_CommitAllOrNone ==
    /\ \A r \in Runs : Active(r) => Staged(run[r]) \cap store = {}
    /\ (Done /\ last.wrote /\ last.exc = "") =>
            /\ last.i = Len(last.batch) + 1
            /\ last.flushed \subseteq store
    /\ (Done /\ last.exc # "") =>
            /\ last.flushed = {}
            /\ last.rolledBack \cap store = {}

\* The store holds two rows of consecutive ids, and the run that returned
\* last had staged a row and lost it to the exception of an existence check.
C13_Witness ==
    /\ Done /\ last.exc = "MultipleResultsFound"
    /\ last.rolledBack # {}
    /\ \E x, y \in store : x.id + 1 = y.id

\* The records of the listing rows that have a link, in page order, and the
\* severities logged for those that have none.
RECURSIVE Remaining(_)
Remaining(soup) ==
    IF soup = <<>> THEN <<>>
    ELSE (IF HasLink(Head(soup))
          THEN <<Article(strip(Head(soup).text), Head(soup).href)>>
          ELSE <<>>) \o Remaining(Tail(soup))
RECURSIVE Severities(_)
Severities(soup) ==
    IF soup = <<>> THEN <<>>
    ELSE (IF HasLink(Head(soup)) THEN <<>>
          ELSE IF Head(soup).span THEN <<"WARNING">> ELSE <<"ERROR">>)
         \o Severities(Tail(soup))
Linkless(soup) == {j \in 1..Len(soup) : ~HasLink(soup[j])}

\* The invocations whose batch has been built from a fetched page: those in
\* write_to_db, and the one that returned last.
Batched == {run[r] : r \in {q \in Runs : run[q].pc = "persisting"}}
               \cup (IF Fetched THEN {last} ELSE {})
RowsIsolated(rec) ==
    LET soup == find_all(rec.page)
        n == Len(soup)
        k == Cardinality(Linkless(soup))
    IN /\ Len(rec.batch) = n - k
       /\ rec.batch = Remaining(soup)
       /\ rec.exc # "" => rec.wrote
       /\ Len(rec.log) >= k

\* C14 as stated: of the n listing rows of a page, the k without a link each
\* yield no record and a log entry of severity WARNING, and the run goes on:
\* the batch holds the records of the other n-k rows, in page order.
C14_LinklessRowWarned ==
    \A rec \in Batched :
        /\ RowsIsolated(rec)
        /\ \A j \in 1..Cardinality(Linkless(find_all(rec.page))) :
                rec.log[j][1] = "WARNING"

\* C14, amended: of the n listing rows of a page, the k without a link each
\* yield no record and a log entry, of severity WARNING when the row's
\* span.titleline holds no link and of severity ERROR when the row has no
\* span.titleline, and the run goes on: the batch holds the records of the
\* other n-k rows, in page order.
C14_LinklessRowLogged ==
    \A rec \in Batched :
        /\ RowsIsolated(rec)
        /\ [j \in 1..Cardinality(Linkless(find_all(rec.page))) |-> rec.log[j][1]]
                = Severities(find_all(rec.page))

\* A run is in write_to_db with the one record of a page whose first
\* listing row has no span.titleline and whose second has a link.
C14_Witness ==
    \E r \in Runs :
        /\ run[r].pc = "persisting"
        /\ Len(run[r].page) = 2
        /\ run[r].page[1] = NoSpanRow
        /\ run[r].page[2].cls = "athing" /\ HasLink(run[r].page[2])
        /\ Len(run[r].batch) = 1
        /\ run[r].log[1][1] = "ERROR"

\* ------------------------------------------------- properties of the API
\* The users whose token the Authorization header names.
Requester(key) == UserOf(authTokens, key)

\* C15: an article create by an authenticated user with a title and a
\* content responds 201 and adds exactly one article, and every article a
\* create adds has the requesting user as its author, whatever author the
\* body carries.
C15_AuthorIsRequester ==
    [][\A key \in NoKey..nextKey, title \in Titles, content \in Texts,
          author \in NoAuthor..2 :
        ArticleCreate(key, title, content, author) =>
            LET created == articleRows' \ articleRows
            IN /\ \A a \in created : Requester(key) = {a.author}
               /\ created # {} => resp'.status = 201
               /\ (Requester(key) # {} /\ ~blank(title) /\ ~blank(content)) =>
                        /\ resp'.status = 201
                        /\ Cardinality(created) = 1
                        /\ articleRows \subseteq articleRows'
                        /\ resp'.data.author \in Requester(key)]_vars

\* Each of the two users has created an article, answered with 201.
C15_Witness ==
    /\ resp.op = "article_create" /\ resp.status = 201
    /\ resp.data \in articleRows
    /\ {a.author : a \in articleRows} = {1, 2}

\* C16: an article create whose Authorization header names no user (or is
\* missing) responds 401 and leaves the articles as they were.
C16_UnauthenticatedRejected ==
    [][\A key \in NoKey..nextKey, title \in Titles, content \in Texts,
          author \in NoAuthor..2 :
        (ArticleCreate(key, title, content, author) /\ Requester(key) = {}) =>
            /\ resp'.status = 401
            /\ articleRows' = articleRows]_vars

\* A create has been rejected with 401 while articles exist.
C16_Witness ==
    /\ resp.op = "article_create" /\ resp.status = 401
    /\ articleRows # {}

\* C17: a registration is answered with 201, one new user whose stored
\* password verifies against the submitted one, and no password in the
\* response, exactly when the email is well-formed and unused and the two
\* passwords are equal and valid; otherwise with 400 and no new user; and
\* no two users share an email.
C17_RegisterIff ==
    [][\A email \in Emails, pair \in PasswordPairs :
        Register(email, pair[1], pair[2]) =>
            LET ok == /\ EmailValidator(email)
                      /\ ~\E u \in users : u.email = email
                      /\ pair[1] = pair[2]
                      /\ validate_password(pair[1])
                created == users' \ users
            IN /\ ok => /\ resp'.status = 201
                        /\ Cardinality(created) = 1
                        /\ users \subseteq users'
                        /\ \A u \in created :
                                /\ u.email = email
                                /\ check_password(pair[1], u.password)
                        /\ "password" \notin DOMAIN resp'.data
               /\ ~ok => resp'.status = 400 /\ users' = users
               /\ \A u, v \in users' : u # v => u.email # v.email]_vars

\* C18: a login with the email and password of a user is answered with 200
\* and a stored token of that user; a login whose email and password are
\* those of no user is answered with 400, without a token, and creates none.
C18_LoginMatchesCredentials ==
    [][\A email \in Emails, password \in Passwords :
        Login(email, password) =>
            LET matching == {u \in users : /\ u.email = email
                                           /\ check_password(password, u.password)}
            IN /\ matching # {} =>
                    /\ resp'.status = 200
                    /\ \E t \in authTokens' :
                            /\ t.key = resp'.data.token
                            /\ t.user \in {u.id : u \in matching}
               /\ matching = {} =>
                    /\ resp'.status = 400
                    /\ "token" \notin DOMAIN resp'.data
                    /\ authTokens' = authTokens]_vars

\* C19: a password change by an authenticated user is answered with 200 and
\* sets the user's password to the new one when the old password is correct
\* and the new passwords are equal and valid; with 400 and no change when
\* the old password is wrong or empty or the new one is empty, too short or
\* mismatched; and no other user's password changes.
C19_ChangePassword ==
    [][\A key \in NoKey..nextKey, method \in Methods, change \in PasswordChanges :
        (/\ ChangePassword(key, method, change[1], change[2], change[3])
         /\ Requester(key) # {}) =>
            LET user == CHOOSE u \in users : {u.id} = Requester(key)
                oldCorrect == check_password(change[1], user.password)
                newValid == /\ change[2] = change[3]
                            /\ validate_password(change[2])
            IN /\ (oldCorrect /\ newValid) =>
                    /\ resp'.status = 200
                    /\ \E u \in users' : /\ u.id = user.id
                                       /\ check_password(change[2], u.password)
               /\ (~oldCorrect \/ ~newValid) =>
                    /\ resp'.status = 400
                    /\ user \in users'
               /\ \A u \in users : u # user => u \in users']_vars

\* C20: a password-reset request for the email of a user is answered with
\* 201, creates one reset token, for that user, and sends one email, to
\* that email; a request for the email of no user is answered with 400,
\* sends no email and creates no token.
C20_PasswordReset ==
    [][\A email \in Emails :
        PasswordReset(email) =>
            LET found == {u \in users : u.email = email}
                created == resetTokens' \ resetTokens
            IN /\ found # {} =>
                    /\ resp'.status = 201
                    /\ resetTokens \subseteq resetTokens'
                    /\ Cardinality(created) = 1
                    /\ \A t \in created : t.user \in {u.id : u \in found}
                    /\ Len(outbox') = Len(outbox) + 1
                    /\ outbox'[Len(outbox')].to = <<email>>
               /\ found = {} =>
                    /\ resp'.status = 400
                    /\ outbox' = outbox
                    /\ resetTokens' = resetTokens]_vars

\* ------------------------------------------------- password-reset confirm
\* The stored reset tokens a token parameter names.
Stored(token) == {t \in resetTokens : t.token = token}
\* A stored token whose hour has passed.
Expired(t) == now >= t.created_at + Hour
\* The tokens that reset emails carried and that are stored no longer.
UsedTokens ==
    {outbox[i].token : i \in 1..Len(outbox)} \ {t.token : t \in resetTokens}

\* C21: a password-reset confirm with a stored, unexpired token and two
\* equal new passwords is answered with 201 and sets the password of the
\* token's user to the new password; no other user changes.
C21_ConfirmSetsPassword ==
    [][\A token \in ConfirmTokens, pair \in ResetPairs :
        (/\ PasswordResetConfirm(token, pair[1], pair[2])
         /\ pair[1] = pair[2]
         /\ pair[1] # <<>>
         /\ \E t \in Stored(token) : ~Expired(t)) =>
            LET t == CHOOSE t \in Stored(token) : TRUE
            IN /\ resp'.status = 201
               /\ \E u \in users' : /\ u.id = t.user
                                    /\ check_password(pair[1], u.password)
               /\ \A u \in users : u.id # t.user => u \in users']_vars

\* C23: a password-reset confirm whose token is missing, is not stored, or
\* is used at or after issue time + 1 hour is answered with 400 and leaves
\* the users and the stored tokens as they were.
C23_ExpiredOrUnknownRejected ==
    [][\A token \in ConfirmTokens, pair \in ResetPairs :
        (/\ PasswordResetConfirm(token, pair[1], pair[2])
         /\ \/ token \in {Absent, <<>>}
            \/ Stored(token) = {}
            \/ \E t \in Stored(token) : Expired(t)) =>
            /\ resp'.status = 400
            /\ users' = users
            /\ resetTokens' = resetTokens]_vars

\* An expired token is all that is stored, and a confirm was refused for
\* its token.
C23_Witness ==
    /\ resetTokens # {}
    /\ \A t \in resetTokens : Expired(t) /\ t.expires_at = t.created_at + Hour
    /\ resp.op = "password_reset_confirm"
    /\ resp.status = 400
    /\ resp.data.errors = {"Invalid or expired token"}

\* C24: a successful confirm deletes the token it used; a confirm with a
\* token used before is answered with 400 and changes no password; and a
\* used token is never stored again.
C24_TokenSingleUse ==
    [][/\ \A token \in ConfirmTokens, pair \in ResetPairs :
            PasswordResetConfirm(token, pair[1], pair[2]) =>
                /\ resp'.status = 201 => /\ Stored(token) # {}
                                          /\ token \in UsedTokens'
                /\ token \in UsedTokens => /\ resp'.status = 400
                                            /\ users' = users
       /\ UsedTokens \subseteq UsedTokens']_vars

\* A token was used, its user's password was set with it, and a later
\* confirm was refused for its token.
C24_Witness ==
    /\ UsedTokens # {}
    /\ resetTokens = {}
    /\ \E u \in users : u.password[2] > FirstSalt
    /\ resp.op = "password_reset_confirm"
    /\ resp.status = 400
    /\ resp.data.errors = {"Invalid or expired token"}

\* C29: a successful confirm removes from the stored tokens the one it
\* used and nothing else; and a stored, unexpired token of a user whose
\* password was reset before still resets it: the confirm is answered with
\* 201 and the user's password changes.
C29_OtherTokensKept ==
    [][\A token \in ConfirmTokens, pair \in ResetPairs :
        PasswordResetConfirm(token, pair[1], pair[2]) =>
            /\ resp'.status = 201 =>
                    /\ resetTokens' = resetTokens \ Stored(token)
                    /\ Cardinality(Stored(token)) = 1
            /\ (/\ \E t \in Stored(token), u \in users :
                        /\ ~Expired(t)
                        /\ u.id = t.user
                        /\ u.password[2] > FirstSalt
                 /\ ~blank(pair[1])
                 /\ to_internal_value(pair[1]) = to_internal_value(pair[2])) =>
                    LET t == CHOOSE t \in Stored(token) : TRUE
                        before == CHOOSE u \in users : u.id = t.user
                    IN /\ resp'.status = 201
                       /\ before \notin users'
                       /\ \E u \in users' :
                            /\ u.id = t.user
                            /\ check_password(to_internal_value(pair[1]), u.password)]_vars

\* One user's password was reset twice, each time with a token of its own.
C29_Witness ==
    /\ \E u \in users : u.password[2] = FirstSalt + 2
    /\ Cardinality(UsedTokens) = 2
    /\ resp.op = "password_reset_confirm"
    /\ resp.status = 201

\* --------------------------------------------------------------- sessions
\* The keys of the stored auth tokens.
Keys(tokens) == {t.key : t \in tokens}
\* The keys that were issued and are stored no longer.
DeletedKeys == (1..(nextKey - 1)) \ Keys(authTokens)

\* C22: a logout by a token-authenticated user is answered with 200 and the
\* logout message and deletes that user's token and no other; a deleted
\* key is never stored again, and a request that carries it is refused.
C22_LogoutDeletesToken ==
    [][/\ \A key \in NoKey..nextKey :
            Logout(key) =>
                /\ Requester(key) # {} =>
                        /\ resp'.status = 200
                        /\ resp'.data = [message |-> "You successfully logged out"]
                        /\ authTokens' =
                                {t \in authTokens : t.user \notin Requester(key)}
                        /\ key \in DeletedKeys'
                        /\ \A t \in authTokens : t.key # key => t \in authTokens'
                /\ key \in DeletedKeys =>
                        /\ resp'.status = 401
                        /\ authTokens' = authTokens
       /\ DeletedKeys \subseteq DeletedKeys']_vars

\* A user logged out, logged in again, and the key of the first token was
\* refused.
C22_Witness ==
    /\ \E key \in DeletedKeys : \E t \in authTokens : t.key > key
    /\ Cardinality(authTokens) = 2
    /\ resp.op = "logout"
    /\ resp.status = 401

\* C28: every user has at most one auth token; a successful login of a user
\* who has a token returns that token's key and creates none; and every
\* successful login returns the key of a stored token of the user.
C28_OneTokenPerUser ==
    [][/\ \A t1, t2 \in authTokens' : t1.user = t2.user => t1 = t2
       /\ \A email \in Emails, password \in Passwords :
            (Login(email, password) /\ resp'.status = 200) =>
                LET user == CHOOSE u \in users : u.email = to_internal_value(email)
                IN /\ \A t \in authTokens : t.user = user.id =>
                            /\ resp'.data.token = t.key
                            /\ authTokens' = authTokens
                   /\ \E t \in authTokens' : /\ t.key = resp'.data.token
                                             /\ t.user = user.id]_vars

\* A user logged in after a logout and got a new token.
C28_Witness ==
    /\ DeletedKeys # {}
    /\ resp.op = "login"
    /\ resp.status = 200
    /\ resp.data.token = nextKey - 1
    /\ \E t \in authTokens : t.key = nextKey - 1

\* ---------------------------------------------------------- notifications
\* The number of messages of a sequence that went to a chat.
CountTo(messages, chat_id) ==
    Cardinality({i \in DOMAIN messages : messages[i].chat_id = chat_id})

\* C25: a request that creates an article posts one message for every user
\* whose telegram_id is set, to that id, and none to anyone else; a request
\* that creates none, and a request that updates an article, post nothing.
C25_NotifyOnCreateOnly ==
    [][/\ \A key \in NoKey..nextKey, title \in Titles, content \in Texts :
            ArticleCreate(key, title, content, NoAuthor) =>
                LET posted == SubSeq(sent', Len(sent) + 1, Len(sent'))
                IN /\ Len(sent') >= Len(sent)
                   /\ articleRows' # articleRows =>
                        /\ \A chat_id \in TelegramIds :
                                CountTo(posted, chat_id) =
                                    Cardinality({u \in users : u.telegram_id = chat_id})
                        /\ CountTo(posted, NullId) = 0
                   /\ articleRows' = articleRows => posted = <<>>
       /\ \A key \in NoKey..nextKey, id \in 1..MaxArticles, title \in Titles,
             content \in Texts :
            ArticleUpdate(key, id, title, content) => sent' = sent]_vars

\* -------------------------------------------------------------------- bot
\* The bot receives a message and handles it.
Handled(chat, text, env) ==
    \/ GetStart(chat, text)
    \/ GetHelp(chat, text)
    \/ GetLatest(chat, text, env)
    \/ StartSubscribe(chat, text)
    \/ PassPassword(chat, text)
    \/ FinishSubscribe(chat, text, env)
    \/ Unhandled(chat, text)

\* The handler returned: it raised nothing.
HandlerReturned(outcome) == outcome.exception = "None"

\* The success reply goes out for a profile update that was answered with
\* 200 and gave the sender's id to the user of the email and password.
SubscribedFor(chat, email, password) ==
    /\ resp'.op = "profile"
    /\ resp'.status = 200
    /\ resp'.data.telegram_id = chat
    /\ \E u \in users' :
            /\ u.telegram_id = chat
            /\ u.email = to_internal_value(str(email))
            /\ check_password(to_internal_value(str(password)), u.password)

\* C26 as stated: the state of a chat changes only from none to email (on
\* /subscribe), from email to password and from password to none; in the
\* email state every message is stored as the email and moves the chat to
\* password; when finish_subscribe returns the state and the data are
\* cleared; and the success reply is sent only for a successful update.
C26_SubscribeFlow ==
    [][\A chat \in Chats, text \in MessageTexts, env \in Envs :
        Handled(chat, text, env) =>
            LET before == ctx[chat].state
                after == ctx'[chat].state
            IN /\ before # after =>
                    \/ before = "none" /\ after = "email"
                                       /\ Command(text, Tail(SubscribeText))
                    \/ before = "email" /\ after = "password"
                    \/ before = "password" /\ after = "none"
               /\ before = "email" => after = "password" /\ ctx'[chat].email = text
               /\ (reply'.callback = "finish_subscribe" /\ HandlerReturned(reply')) =>
                    ctx'[chat] = NoConversation
               /\ reply'.text = "successfully subscribed" =>
                    SubscribedFor(chat, ctx[chat].email, text)]_vars

\* One of the commands that are registered before the state handlers.
EarlyCommand(text) ==
    \/ Command(text, Tail(StartText))
    \/ Command(text, Tail(HelpText))
    \/ Command(text, Tail(SubscribeText))

\* C26, amended: /subscribe moves a chat to email from every state, /start
\* and /help leave the state alone; every other message moves a chat in
\* email to password and is stored as the email, and is used as the
\* password of a chat in password; the state changes in no other way; when
\* finish_subscribe returns the state and the data are cleared; and the
\* success reply is sent only for a successful update.
C26_SubscribeFlowWithCommands ==
    [][\A chat \in Chats, text \in MessageTexts, env \in Envs :
        Handled(chat, text, env) =>
            LET before == ctx[chat].state
                after == ctx'[chat].state
            IN /\ Command(text, Tail(SubscribeText)) => after = "email"
               /\ (EarlyCommand(text) /\ ~Command(text, Tail(SubscribeText))) =>
                    ctx' = ctx
               /\ (~EarlyCommand(text) /\ before = "none") => ctx' = ctx
               /\ (~EarlyCommand(text) /\ before = "email") =>
                    /\ after = "password"
                    /\ ctx'[chat].email = text
               /\ (~EarlyCommand(text) /\ before = "password") =>
                    /\ reply'.callback = "finish_subscribe"
                    /\ after = IF HandlerReturned(reply') THEN "none" ELSE "password"
                    /\ HandlerReturned(reply') => ctx'[chat] = NoConversation
               /\ reply'.text = "successfully subscribed" =>
                    /\ reply'.callback = "finish_subscribe"
                    /\ SubscribedFor(chat, ctx[chat].email, text)]_vars

\* A subscription succeeded: the sender's id is the telegram_id of a user
\* and nothing of the conversation is left.
C26_Witness ==
    /\ reply.callback = "finish_subscribe"
    /\ reply.text = "successfully subscribed"
    /\ ctx[reply.chat] = NoConversation
    /\ \E u \in users : u.telegram_id = reply.chat

\* C30: in the email and password states /start, /help and /subscribe are
\* handled by their command handlers, and /subscribe moves the chat to
\* email; /latest is taken by the state handler, as the email or as the
\* password, and is not answered with the latest article; get_latest runs
\* only for a chat in no state.
C30_CommandsInForm ==
    [][\A chat \in Chats, text \in MessageTexts, env \in Envs :
        Handled(chat, text, env) =>
            /\ ctx[chat].state \in {"email", "password"} =>
                    /\ Command(text, Tail(StartText)) =>
                            reply'.callback = "get_start"
                    /\ Command(text, Tail(HelpText)) =>
                            reply'.callback = "get_help"
                    /\ Command(text, Tail(SubscribeText)) =>
                            /\ reply'.callback = "start_subscribe"
                            /\ ctx'[chat].state = "email"
                    /\ Command(text, Tail(LatestText)) =>
                            /\ reply'.text # "Title"
                            /\ ctx[chat].state = "email" =>
                                    /\ reply'.callback = "pass_password"
                                    /\ ctx'[chat].email = text
                            /\ ctx[chat].state = "password" =>
                                    /\ reply'.callback = "finish_subscribe"
                                    /\ resp'.op = "login" \/ ~HandlerReturned(reply')
            /\ reply'.callback = "get_latest" => ctx[chat].state = "none"]_vars

\* /latest was stored as the email of a chat that had another email stored
\* before: the chat went back to email with /subscribe.
C30_Witness ==
    /\ reply.callback = "pass_password"
    /\ \E chat \in Chats : /\ ctx[chat].state = "password"
                              /\ ctx[chat].email = LatestText

\* ------------------------------------------------------- duplicated urls
\* The urls that two rows or more of a table have.
Duplicated(table) ==
    {x.url : x \in {row \in table : \E y \in table : y # row /\ y.url = row.url}}

\* The positions of a batch whose record has a url that is duplicated.
Blocked(rec) ==
    {k \in 1..Len(rec.batch) : Url(rec.batch[k]) \in Duplicated(rec.startStore)}

\* C27: a run that started on a store with a duplicated url and whose batch
\* holds a record of that url ends with MultipleResultsFound at the
\* existence check of that record and commits nothing: the rows it had
\* flushed before are not in the store.
C27_DuplicateBlocksBatch ==
    (Done /\ last.wrote /\ Blocked(last) # {}) =>
        /\ last.exc = "MultipleResultsFound"
        /\ last.i \in Blocked(last)
        /\ \A k \in Blocked(last) : last.i <= k
        /\ last.flushed = {}
        /\ last.rolledBack \cap store = {}
        /\ ~Logged(last, "INFO")
        /\ ~last.overlapped => last.endStore = last.startStore

\* A run checked a new record, then a record of the duplicated url, and
\* lost the row of the first.
C27_Witness ==
    /\ Done /\ last.wrote /\ Blocked(last) # {}
    /\ last.i = 2
    /\ last.rolledBack # {}
    /\ \A row \in last.rolledBack : row.url \notin Duplicated(last.startStore)
====
